---- MODULE Spec2Model ----
(***************************************************************************)
(* Model of src/lambda.py: the rotating proxy pool (class Proxies), the    *)
(* retried article request (Entry.makeRequest under tenacity's @retry) and *)
(* the ticker heuristic (Entry.getTicker).                                 *)
(***************************************************************************)
EXTENDS Integers, Sequences, FiniteSets, TLC

(* ---------------------------- bounds ----------------------------------- *)
NumEndpoints == 2      \* distinct "ip:port" strings the proxy site can list
MaxRows == 2           \* data rows of the proxy site's table
MaxCalls == 3          \* calls made on the pool by the harness
MaxEntries == 2        \* entries the feed holds
Pad == 40              \* filler characters that keep two parts of a text apart
MaxFeed == 12          \* longest feed the slice of the batch is computed on

(* ------------------------ program constants ---------------------------- *)
RowCap == 299          \* rows[1:300] keeps at most 299 data rows
MaxAttempts == 6       \* stop_after_attempt(6)
FixedDelay == 10       \* wait_fixed(10), seconds
ProxyErrorLimit == 4   \* if self.proxyErrorCounter >= 4
BackWindow == 34       \* range(-1, -35, -1)
FwdWindow == 35        \* range(35)
ColonWindow == 30      \* range(30)
SymbolLen == 5         \* [:5]
BatchCap == 10         \* data.entriesList[9::-1]

None == 0              \* Python's None for currentProxy
Endpoints == 1..NumEndpoints
Flags == {"yes", "no"} \* column 6 of a row: "yes" or anything else
\* a row is (ip:port, flag); the ip:port of a row that is not "yes" is never
\* looked at again, so one such row stands for all of them
RowSet == {r \in [ep : Endpoints, https : Flags] : r.https = "yes" \/ r.ep = 1}
SourceRows == UNION {[1..n -> RowSet] : n \in 0..MaxRows}

Range(s) == {s[i] : i \in 1..Len(s)}
Min(a, b) == IF a < b THEN a ELSE b

VARIABLES
  proxyList,         \* Proxies.proxyList
  currentProxy,      \* Proxies.currentProxy
  source,            \* data rows of the table the last pool call downloaded
  poolCall,          \* the last call made on the pool and how it ended
  nextCalls,         \* getNextProxy calls since construction
  explicitRefreshes, \* refreshProxies calls since construction
  implicitRefreshes, \* getProxiesDefault calls made from getNextProxy
  firstImplicitAt,   \* number of the getNextProxy call that made the first one
  initLen,           \* len(proxyList) right after construction
  pc,                \* where lambda_function stands
  feed,              \* GNWData.entriesList, in the order of the feed
  data,              \* data after the slice [9::-1]: the batch
  batchSize,         \* len(data)
  entryNo,           \* entries of the batch already started
  started,           \* the entries Entry(item, proxies) was called on, in order
  skipped,           \* entries left by `continue`
  stored,            \* records inserted and committed
  rolledBack,        \* inserts that raised and were rolled back
  connOpen,          \* the database connection is open
  link,              \* Entry.link: "valid", "noScheme" or "badScheme"
  proxyErrorCounter, \* Entry.proxyErrorCounter
  attempt,           \* tenacity's attempt number in this makeRequest call
  waited,            \* seconds slept between attempts of this call
  gets,              \* GETs of this call that went out to the network
  outcome,           \* how the last attempt ended
  transients,        \* attempts of this call that ended in a transient failure
  proxyFailures,     \* attempts of this call that ended in a ProxyError
  handlerRefreshes,  \* refreshProxies calls made by the ProxyError handler
  fetchResult,       \* what the makeRequest call gave its caller
  lastError,         \* the exception of the last attempt that raised
  shape,             \* how the article text under test is laid out
  article,           \* Entry.article
  tpc,               \* "ready" before getTicker ran, "done" after
  ticker             \* what getTicker gave: exception, Entry.ticker, label used

poolVars == <<proxyList, currentProxy>>
harnessVars == <<source, poolCall, nextCalls, explicitRefreshes,
                 implicitRefreshes, firstImplicitAt, initLen>>
callVars == <<link, proxyErrorCounter, attempt, waited, gets, outcome,
              transients, proxyFailures, handlerRefreshes, fetchResult,
              lastError>>
batchVars == <<feed, data, batchSize, entryNo, started, skipped, stored,
               rolledBack, connOpen>>
fetchVars == <<pc, batchVars, callVars>>
tickerVars == <<shape, article, tpc, ticker>>
vars == <<poolVars, harnessVars, fetchVars, tickerVars>>

(* ------------------------------ Proxies -------------------------------- *)
\* the loop of getProxiesDefault: keep "ip:port" of the rows whose column 6
\* is "yes", in table order
RECURSIVE HttpsOnly(_)
HttpsOnly(rows) ==
  IF rows = <<>> THEN <<>>
  ELSE (IF Head(rows).https = "yes" THEN <<Head(rows).ep>> ELSE <<>>)
       \o HttpsOnly(Tail(rows))

\* a download that empties the list before it asks the proxy site
getProxiesDefaultClearsFirst(list, up, rows) ==
  IF ~up THEN [exc |-> "RequestException", list |-> <<>>]
  ELSE [exc |-> "none",
        list |-> HttpsOnly(SubSeq(rows, 1, Min(Len(rows), RowCap)))]

\* getProxiesDefault: requests.get raising RequestException leaves proxyList
\* alone and re-raises; otherwise proxyList is rebuilt from rows[1:300]
getProxiesDefault(list, up, rows) ==
  IF ~up THEN [exc |-> "RequestException", list |-> list]
  ELSE [exc |-> "none",
        list |-> HttpsOnly(SubSeq(rows, 1, Min(Len(rows), RowCap)))]

\* refreshProxies: getProxiesDefault and nothing else (the cursor lines are
\* commented out)
refreshProxies(list, cur, up, rows) ==
  LET g == getProxiesDefault(list, up, rows)
  IN  [exc |-> g.exc, list |-> g.list, cur |-> cur]

\* list.index(x): position of the first element equal to x
IndexOf(list, x) == CHOOSE i \in 1..Len(list) :
                      list[i] = x /\ \A j \in 1..(i - 1) : list[j] # x

\* getNextProxy, first branch: no cursor yet, take self.proxyList[0]
FirstProxy(list, cur) ==
  IF list = <<>>
  THEN [exc |-> "IndexError", list |-> list, cur |-> cur,
        ret |-> None, refreshed |-> FALSE]
  ELSE [exc |-> "none", list |-> list, cur |-> list[1],
        ret |-> list[1], refreshed |-> FALSE]

\* getNextProxy, second branch: the element after the first one equal to the
\* cursor; list.index raises ValueError for a cursor that is not in the list
Advance(list, cur) ==
  IF cur \notin Range(list)
  THEN [exc |-> "ValueError", list |-> list, cur |-> cur,
        ret |-> None, refreshed |-> FALSE]
  ELSE [exc |-> "none", list |-> list, cur |-> list[IndexOf(list, cur) + 1],
        ret |-> list[IndexOf(list, cur) + 1], refreshed |-> FALSE]

\* getNextProxy, last branch: download the table again and take its first
\* element
WrapAround(list, cur, up, rows) ==
  LET g == getProxiesDefault(list, up, rows)
  IN  IF g.exc # "none"
      THEN [exc |-> g.exc, list |-> g.list, cur |-> cur,
            ret |-> None, refreshed |-> TRUE]
      ELSE IF g.list = <<>>    \* self.proxyList[0]
      THEN [exc |-> "IndexError", list |-> g.list, cur |-> cur,
            ret |-> None, refreshed |-> TRUE]
      ELSE [exc |-> "none", list |-> g.list, cur |-> g.list[1],
            ret |-> g.list[1], refreshed |-> TRUE]

\* getNextProxy
getNextProxy(list, cur, up, rows) ==
  IF cur = None THEN FirstProxy(list, cur)
  ELSE IF list = <<>>            \* self.proxyList[-1]
    THEN [exc |-> "IndexError", list |-> list, cur |-> cur,
          ret |-> None, refreshed |-> FALSE]
  ELSE IF cur # list[Len(list)] THEN Advance(list, cur)
  ELSE WrapAround(list, cur, up, rows)

\* the branch of getNextProxy that downloads the table: the cursor is on the
\* last element
AtLast(list, cur) == cur # None /\ list # <<>> /\ cur = list[Len(list)]

\* the tables the proxy site may serve to a call; a call that downloads
\* nothing reads none
Served(downloads) == IF downloads THEN SourceRows ELSE {<<>>}

\* whether the proxy site answers a download; of no account to a call that
\* downloads nothing
Reachable(downloads) == IF downloads THEN BOOLEAN ELSE {TRUE}

(* --------------------- the pool driven through its API ----------------- *)
NoCall == [op |-> "none", exc |-> "none", ret |-> None, refreshed |-> FALSE]

\* Proxies.__init__ : empty list, no cursor, one getProxiesDefault that
\* succeeded (a failed one leaves no object behind)
InitPool ==
  /\ \E rows \in SourceRows :
       proxyList = getProxiesDefault(<<>>, TRUE, rows).list
  /\ currentProxy = None

InitHarness ==
  /\ source \in {rows \in SourceRows :
                    proxyList = getProxiesDefault(<<>>, TRUE, rows).list}
  /\ poolCall = NoCall
  /\ nextCalls = 0
  /\ explicitRefreshes = 0
  /\ implicitRefreshes = 0
  /\ firstImplicitAt = 0
  /\ initLen = Len(proxyList)

\* the pool used by lambda_function, not by the harness
NoHarness ==
  /\ source = <<>>
  /\ poolCall = NoCall
  /\ nextCalls = 0
  /\ explicitRefreshes = 0
  /\ implicitRefreshes = 0
  /\ firstImplicitAt = 0
  /\ initLen = 0

ApiNext ==
  /\ nextCalls + explicitRefreshes < MaxCalls
  /\ \E up \in Reachable(AtLast(proxyList, currentProxy)),
        rows \in Served(AtLast(proxyList, currentProxy)) :
       \E r \in {getNextProxy(proxyList, currentProxy, up, rows)} :
           /\ source' = IF r.refreshed /\ r.exc # "RequestException"
                        THEN rows ELSE source
           /\ proxyList' = r.list
           /\ currentProxy' = r.cur
           /\ poolCall' = [op |-> "getNextProxy", exc |-> r.exc,
                           ret |-> r.ret, refreshed |-> r.refreshed]
           /\ nextCalls' = nextCalls + 1
           /\ implicitRefreshes' = implicitRefreshes + (IF r.refreshed THEN 1 ELSE 0)
           /\ firstImplicitAt' = IF r.refreshed /\ firstImplicitAt = 0
                                 THEN nextCalls + 1 ELSE firstImplicitAt
  /\ UNCHANGED <<explicitRefreshes, initLen, fetchVars, tickerVars>>

ApiRefresh ==
  /\ nextCalls + explicitRefreshes < MaxCalls
  /\ \E up \in BOOLEAN, rows \in SourceRows :
       \E r \in {refreshProxies(proxyList, currentProxy, up, rows)} :
           /\ source' = IF r.exc = "none" THEN rows ELSE source
           /\ proxyList' = r.list
           /\ currentProxy' = r.cur
           /\ poolCall' = [op |-> "refreshProxies", exc |-> r.exc,
                           ret |-> None, refreshed |-> TRUE]
  /\ explicitRefreshes' = explicitRefreshes + 1
  /\ UNCHANGED <<nextCalls, implicitRefreshes, firstImplicitAt, initLen,
                 fetchVars, tickerVars>>

(* ------------------------- Entry.makeRequest --------------------------- *)
LinkKinds == {"valid", "noScheme", "badScheme"}
NetOutcomes == {"ok", "ProxyError", "Transient"}

\* a makeRequest whose handler of a transient failure refreshes the pool
makeRequestTransientRefreshes(list, cur, counter, lnk, net, upNext, upHandler, rows) ==
  LET n == getNextProxy(list, cur, upNext, rows)
      fromNext == n.refreshed /\ n.exc # "RequestException"
      base == [list |-> n.list, cur |-> n.cur, counter |-> counter,
               got |-> FALSE, refreshed |-> FALSE, downloaded |-> fromNext]
  IN  IF n.exc = "RequestException"      \* except RequestException: raise
      THEN base @@ [outcome |-> "ProxySourceDown",
                    raised |-> "RequestException", returned |-> "none"]
      ELSE IF n.exc # "none"             \* except Exception: print(e)
      THEN base @@ [outcome |-> n.exc, raised |-> "none", returned |-> "None"]
      ELSE IF lnk = "noScheme"           \* except MissingSchema
      THEN base @@ [outcome |-> "MissingSchema",
                    raised |-> "InvalidArticleLink", returned |-> "none"]
      ELSE IF lnk = "badScheme"          \* except InvalidSchema
      THEN base @@ [outcome |-> "InvalidSchema",
                    raised |-> "InvalidArticleLink", returned |-> "none"]
      ELSE IF net = "ok"                 \* else: return self.page_soup
      THEN [base EXCEPT !.got = TRUE]
           @@ [outcome |-> "ok", raised |-> "none", returned |-> "page"]
      ELSE IF net = "Transient"
      THEN LET f == refreshProxies(n.list, n.cur, upHandler, rows)
           IN  [list |-> f.list, cur |-> f.cur, counter |-> counter,
                got |-> TRUE, refreshed |-> TRUE, downloaded |-> TRUE,
                outcome |-> "Transient", raised |-> "RequestException",
                returned |-> "none"]
      ELSE                               \* except ProxyError
        IF counter + 1 >= ProxyErrorLimit
        THEN LET f == refreshProxies(n.list, n.cur, upHandler, rows)
             IN  IF f.exc # "none"       \* raised inside the handler
                 THEN [list |-> f.list, cur |-> f.cur, counter |-> counter + 1,
                       got |-> TRUE, refreshed |-> TRUE, downloaded |-> fromNext,
                       outcome |-> "ProxyError", raised |-> f.exc,
                       returned |-> "none"]
                 ELSE [list |-> f.list, cur |-> f.cur, counter |-> 0,
                       got |-> TRUE, refreshed |-> TRUE, downloaded |-> TRUE,
                       outcome |-> "ProxyError", raised |-> "none",
                       returned |-> "None"]
        ELSE [list |-> n.list, cur |-> n.cur, counter |-> counter + 1,
              got |-> TRUE, refreshed |-> FALSE, downloaded |-> fromNext,
              outcome |-> "ProxyError", raised |-> "none", returned |-> "None"]

\* one run of the body of makeRequest.  lnk: the kind of self.link; net: what
\* the GET meets on the network; upNext, upHandler: whether the proxy site
\* answers the refresh made by getNextProxy / by the ProxyError handler
makeRequest(list, cur, counter, lnk, net, upNext, upHandler, rows) ==
  LET n == getNextProxy(list, cur, upNext, rows)
      fromNext == n.refreshed /\ n.exc # "RequestException"
      base == [list |-> n.list, cur |-> n.cur, counter |-> counter,
               got |-> FALSE, refreshed |-> FALSE, downloaded |-> fromNext]
  IN  IF n.exc = "RequestException"      \* except RequestException: raise
      THEN base @@ [outcome |-> "ProxySourceDown",
                    raised |-> "RequestException", returned |-> "none"]
      ELSE IF n.exc # "none"             \* except Exception: print(e)
      THEN base @@ [outcome |-> n.exc, raised |-> "none", returned |-> "None"]
      ELSE IF lnk = "noScheme"           \* except MissingSchema
      THEN base @@ [outcome |-> "MissingSchema",
                    raised |-> "InvalidArticleLink", returned |-> "none"]
      ELSE IF lnk = "badScheme"          \* except InvalidSchema
      THEN base @@ [outcome |-> "InvalidSchema",
                    raised |-> "InvalidArticleLink", returned |-> "none"]
      ELSE IF net = "ok"                 \* else: return self.page_soup
      THEN [base EXCEPT !.got = TRUE]
           @@ [outcome |-> "ok", raised |-> "none", returned |-> "page"]
      ELSE IF net = "Transient"          \* except RequestException: raise
      THEN [base EXCEPT !.got = TRUE]
           @@ [outcome |-> "Transient", raised |-> "RequestException",
               returned |-> "none"]
      ELSE                               \* except ProxyError
        IF counter + 1 >= ProxyErrorLimit
        THEN LET f == refreshProxies(n.list, n.cur, upHandler, rows)
             IN  IF f.exc # "none"       \* raised inside the handler
                 THEN [list |-> f.list, cur |-> f.cur, counter |-> counter + 1,
                       got |-> TRUE, refreshed |-> TRUE, downloaded |-> fromNext,
                       outcome |-> "ProxyError", raised |-> f.exc,
                       returned |-> "none"]
                 ELSE [list |-> f.list, cur |-> f.cur, counter |-> 0,
                       got |-> TRUE, refreshed |-> TRUE, downloaded |-> TRUE,
                       outcome |-> "ProxyError", raised |-> "none",
                       returned |-> "None"]
        ELSE [list |-> n.list, cur |-> n.cur, counter |-> counter + 1,
              got |-> TRUE, refreshed |-> FALSE, downloaded |-> fromNext,
              outcome |-> "ProxyError", raised |-> "none", returned |-> "None"]

\* what the GET can meet on the network; it goes out only for a link with a
\* usable scheme and after getNextProxy returned
Met(lnk, n) ==
  IF lnk = "valid" /\ n.exc = "none" THEN NetOutcomes ELSE {"ok"}

\* a stop condition that lets one attempt too many through
RetryStopLate(n) == n > MaxAttempts

\* stop_after_attempt(6)
RetryStop(n) == n >= MaxAttempts

(* --------------------------- Entry.getTicker --------------------------- *)
\* a text is a sequence of one-character strings
exchanges ==
  <<<<"N", "a", "s", "d", "a", "q">>,
     <<"N", "A", "S", "D", "A", "Q">>,
     <<"N", "Y", "S", "E">>,
     <<"O", "T", "C">>,
     <<"S", "y", "m", "b", "o", "l">>,
     <<"O", "T", "C", "Q", "B">>,
     <<"O", "T", "C", "P", "K">>,
     <<"O", "T", "C", "B", "B">>,
     <<"O", "T", "C", " ", "P", "i", "n", "k">>,
     <<"O", "T", "C", ".", "P", "K">>,
     <<"O", "T", "C", " ", "P", "I", "N", "K">>,
     <<"O", "T", "C", "M", "K", "T", "S">>,
     <<"O", "T", "C", "Q", "X">>,
     <<"O", "T", "C", " ", "B", "B">>,
     <<"O", "T", "C", " ", "M", "a", "r", "k", "e", "t", "s">>>>

Letters ==
  {"A", "B", "C", "D", "E", "F", "G", "H", "I", "J", "K", "L", "M",
   "N", "O", "P", "Q", "R", "S", "T", "U", "V", "W", "X", "Y", "Z",
   "a", "b", "c", "d", "e", "f", "g", "h", "i", "j", "k", "l", "m",
   "n", "o", "p", "q", "r", "s", "t", "u", "v", "w", "x", "y", "z"}
Whitespace == {" ", "\t", "\n"}

NonString == <<"NoneType">>          \* an article that is not a str
NoTicker == <<>>                      \* getTicker returning None

\* s[i:] of Python, i counted from 0
From(s, i) == SubSeq(s, i + 1, Len(s))

\* str.find: 0-based position of the first occurrence of sub in s, -1 if none
Find(s, sub) ==
  LET hits == {i \in 0..(Len(s) - Len(sub)) :
                 SubSeq(s, i + 1, i + Len(sub)) = sub}
  IN  IF hits = {} THEN -1
      ELSE CHOOSE i \in hits : \A j \in hits : i <= j

\* s.partition(sub) for a sub that occurs in s
Partition(s, sub) ==
  LET p == Find(s, sub)
  IN  <<SubSeq(s, 1, p), sub, From(s, p + Len(sub))>>

\* for i in range(-1, -35, -1): the nearest bracket before the label
RECURSIVE ScanBack(_, _)
ScanBack(before, k) ==
  IF k > BackWindow THEN "none"
  ELSE IF k > Len(before) THEN "IndexError"
  ELSE IF before[Len(before) - k + 1] = "(" THEN "open"
  ELSE IF before[Len(before) - k + 1] = ")" THEN "close"
  ELSE ScanBack(before, k + 1)

\* for i in range(35): the nearest bracket after the label
RECURSIVE ScanFwd(_, _)
ScanFwd(after, i) ==
  IF i >= FwdWindow THEN "none"
  ELSE IF i >= Len(after) THEN "IndexError"
  ELSE IF after[i + 1] = ")" THEN "close"
  ELSE IF after[i + 1] = "(" THEN "open"
  ELSE ScanFwd(after, i + 1)

\* a colon scan that looks one character too far
RECURSIVE ColonScanLate(_, _)
ColonScanLate(after, i) ==
  IF i > ColonWindow THEN -1
  ELSE IF i >= Len(after) THEN -2
  ELSE IF after[i + 1] = ":" THEN i
  ELSE ColonScanLate(after, i + 1)

\* for i in range(30): the 0-based position of the first ':', -1 if there is
\* none in the window, -2 for an IndexError
RECURSIVE ColonScan(_, _)
ColonScan(after, i) ==
  IF i >= ColonWindow THEN -1
  ELSE IF i >= Len(after) THEN -2
  ELSE IF after[i + 1] = ":" THEN i
  ELSE ColonScan(after, i + 1)

\* str.strip()
RECURSIVE LStrip(_)
LStrip(s) == IF s # <<>> /\ Head(s) \in Whitespace THEN LStrip(Tail(s)) ELSE s
RECURSIVE RStrip(_)
RStrip(s) == IF s # <<>> /\ s[Len(s)] \in Whitespace
             THEN RStrip(SubSeq(s, 1, Len(s) - 1)) ELSE s
Strip(s) == RStrip(LStrip(s))

\* the characters the pattern [^;)\s] rejects
Excluded == {";", ")"} \cup Whitespace

\* the longest prefix of s without an excluded character
RECURSIVE Run(_)
Run(s) == IF s = <<>> \/ Head(s) \in Excluded THEN <<>>
          ELSE <<Head(s)>> \o Run(Tail(s))

\* re.compile('[^;)\s]+').search(s): the first non-empty run, <<>> for no match
RECURSIVE RegexSearch(_)
RegexSearch(s) ==
  IF s = <<>> THEN <<>>
  ELSE IF Head(s) \in Excluded THEN RegexSearch(Tail(s))
  ELSE Run(s)

\* str.isalpha()
IsAlpha(s) == s # <<>> /\ \A i \in 1..Len(s) : s[i] \in Letters

\* the symbol handed back without the isalpha() test
SymbolNoAlphaCheck(after, k) ==
  LET secondString == Partition(after, <<":">>)
      stripped == Strip(secondString[3])
      symbolString == SubSeq(stripped, 1, Min(Len(stripped), SymbolLen))
      symbol == RegexSearch(symbolString)
  IN  IF symbol = <<>>
      THEN [exc |-> "AttributeError", ticker |-> NoTicker, via |-> k,
            swallowed |-> "none"]
      ELSE [exc |-> "none", ticker |-> symbol, via |-> k, swallowed |-> "none"]

\* lines 289-298: the symbol after the first ':' of the text after the label
Symbol(after, k) ==
  LET secondString == Partition(after, <<":">>)
      stripped == Strip(secondString[3])
      symbolString == SubSeq(stripped, 1, Min(Len(stripped), SymbolLen))
      symbol == RegexSearch(symbolString)
  IN  IF symbol = <<>>             \* None.group(0)
      THEN [exc |-> "AttributeError", ticker |-> NoTicker, via |-> k,
            swallowed |-> "none"]
      ELSE IF IsAlpha(symbol)
      THEN [exc |-> "none", ticker |-> symbol, via |-> k, swallowed |-> "none"]
      ELSE [exc |-> "none", ticker |-> NoTicker, via |-> k, swallowed |-> "none"]

\* except IndexError: print(exchangeTuple), and None is returned
RunOff(k) == [exc |-> "none", ticker |-> NoTicker, via |-> k,
              swallowed |-> "IndexError"]

\* a loop that gives up (returns None) at the first label found in the text
\* whose brackets or colon are not where they should be
RECURSIVE TryExchangesNoFallThrough(_, _)
TryExchangesNoFallThrough(a, k) ==
  IF k > Len(exchanges)
  THEN [exc |-> "none", ticker |-> NoTicker, via |-> 0, swallowed |-> "none"]
  ELSE IF Find(a, exchanges[k]) = -1 THEN TryExchangesNoFallThrough(a, k + 1)
  ELSE
    LET t == Partition(a, exchanges[k])
        back == ScanBack(t[1], 1)
        fwd == ScanFwd(t[3], 0)
        colon == ColonScan(t[3], 0)
    IN  IF back = "IndexError" \/ fwd = "IndexError" THEN RunOff(k)
        ELSE IF back = "open" /\ fwd = "close"
        THEN IF colon = -2 THEN RunOff(k)
             ELSE IF colon = -1
             THEN [exc |-> "none", ticker |-> NoTicker, via |-> k,
                   swallowed |-> "none"]
             ELSE Symbol(t[3], k)
        ELSE [exc |-> "none", ticker |-> NoTicker, via |-> k,
              swallowed |-> "none"]

\* the loop over self.exchanges from label k on
RECURSIVE TryExchanges(_, _)
TryExchanges(a, k) ==
  IF k > Len(exchanges)
  THEN [exc |-> "none", ticker |-> NoTicker, via |-> 0, swallowed |-> "none"]
  ELSE IF Find(a, exchanges[k]) = -1 THEN TryExchanges(a, k + 1)
  ELSE
    LET t == Partition(a, exchanges[k])
        back == ScanBack(t[1], 1)
        fwd == ScanFwd(t[3], 0)
        colon == ColonScan(t[3], 0)
    IN  IF back = "IndexError" \/ fwd = "IndexError" THEN RunOff(k)
        ELSE IF back = "open" /\ fwd = "close"
        THEN IF colon = -2 THEN RunOff(k)
             ELSE IF colon = -1 THEN TryExchanges(a, k + 1)
             ELSE Symbol(t[3], k)
        ELSE TryExchanges(a, k + 1)

\* getTicker: `exchange in self.article` raises TypeError for an article that
\* is no str, turned into InvalidArticleText
getTicker(a) ==
  IF a = NonString
  THEN [exc |-> "InvalidArticleText", ticker |-> NoTicker, via |-> 0,
        swallowed |-> "none"]
  ELSE TryExchanges(a, 1)

(* -------------------- lambda_function, entry by entry ------------------ *)
PageKinds == {"full", "noBody", "noHeadline"}
TickerKinds == {"ticker", "None", "AttributeError"}

\* a feed of n entries, each named by its place in the feed
Numbered(n) == [i \in 1..n |-> i]

\* s[i::-1] for 0 <= i < len(s), and for i = -1 standing for the empty slice
RECURSIVE SliceDown(_, _)
SliceDown(s, i) ==
  IF i < 0 THEN <<>> ELSE <<s[i + 1]>> \o SliceDown(s, i - 1)

\* a slice that keeps the order of the feed
BatchInFeedOrder(entriesList) ==
  SubSeq(entriesList, 1, Min(BatchCap, Len(entriesList)))

\* data.entriesList[9::-1]: the start 9 is clipped to the last index
Batch(entriesList) ==
  SliceDown(entriesList, Min(BatchCap - 1, Len(entriesList) - 1))

\* lambda_function at the head of its loop
LoopStart ==
  /\ pc = "idle"
  /\ data = Batch(feed)
  /\ batchSize = Len(Batch(feed))
  /\ entryNo = 0
  /\ started = <<>>
  /\ skipped = 0
  /\ stored = 0
  /\ rolledBack = 0
  /\ connOpen = TRUE
  /\ link = "valid"
  /\ proxyErrorCounter = 0
  /\ attempt = 0
  /\ waited = 0
  /\ gets = 0
  /\ outcome = "none"
  /\ transients = 0
  /\ proxyFailures = 0
  /\ handlerRefreshes = 0
  /\ fetchResult = "none"
  /\ lastError = "none"

InitFetch ==
  /\ feed \in {Numbered(n) : n \in 0..MaxEntries}
  /\ LoopStart

\* no batch to run: the pool or getTicker is exercised on its own
NoFeed ==
  /\ feed = <<>>
  /\ LoopStart

\* a makeRequest call that has not made an attempt yet
NewCall ==
  /\ proxyErrorCounter' = 0
  /\ attempt' = 0
  /\ waited' = 0
  /\ gets' = 0
  /\ outcome' = "none"
  /\ transients' = 0
  /\ proxyFailures' = 0
  /\ handlerRefreshes' = 0
  /\ fetchResult' = "none"
  /\ lastError' = "none"

\* Entry.__init__ up to the call of makeRequest
StartEntry ==
  /\ pc = "idle"
  /\ entryNo < batchSize
  /\ entryNo' = entryNo + 1
  /\ started' = Append(started, data[entryNo + 1])
  /\ link' \in LinkKinds
  /\ NewCall
  /\ pc' = "request"
  /\ UNCHANGED <<poolVars, harnessVars, tickerVars, feed, data, batchSize,
                 skipped, stored, rolledBack, connOpen>>

\* one attempt of makeRequest and tenacity's decision on it
Attempt ==
  /\ pc = "request"
  /\ \E upNext \in Reachable(AtLast(proxyList, currentProxy)),
        upHandler \in Reachable(proxyErrorCounter + 1 >= ProxyErrorLimit) :
     \E rows \in Served((AtLast(proxyList, currentProxy) /\ upNext)
                         \/ proxyErrorCounter + 1 >= ProxyErrorLimit) :
     \E net \in Met(link, getNextProxy(proxyList, currentProxy, upNext, rows)) :
       \E r \in {makeRequest(proxyList, currentProxy, proxyErrorCounter, link,
                             net, upNext, upHandler, rows)} :
           /\ proxyList' = r.list
           /\ currentProxy' = r.cur
           /\ proxyErrorCounter' = r.counter
           /\ attempt' = attempt + 1
           /\ gets' = gets + (IF r.got THEN 1 ELSE 0)
           /\ outcome' = r.outcome
           /\ transients' = transients + (IF r.outcome = "Transient" THEN 1 ELSE 0)
           /\ proxyFailures' = proxyFailures
                                + (IF r.outcome = "ProxyError" THEN 1 ELSE 0)
           /\ handlerRefreshes' = handlerRefreshes
                                   + (IF r.refreshed THEN 1 ELSE 0)
           /\ IF r.raised = "none"
              THEN /\ pc' = "fetched"
                   /\ fetchResult' = r.returned
                   /\ lastError' = lastError
              ELSE IF RetryStop(attempt + 1)
              THEN /\ pc' = "fetched"
                   /\ fetchResult' = "RetryError"
                   /\ lastError' = r.raised
              ELSE /\ pc' = "sleep"
                   /\ fetchResult' = fetchResult
                   /\ lastError' = r.raised
  /\ UNCHANGED <<batchVars, link, waited, harnessVars, tickerVars>>

\* wait_fixed(10) between two attempts
Sleep ==
  /\ pc = "sleep"
  /\ waited' = waited + FixedDelay
  /\ pc' = "request"
  /\ UNCHANGED <<poolVars, harnessVars, batchVars, link, proxyErrorCounter,
                 attempt, gets, outcome, transients, proxyFailures,
                 handlerRefreshes, fetchResult, lastError, tickerVars>>

\* a loop that puts an entry whose construction failed back in the queue
BuildEntryRequeues ==
  /\ pc = "fetched"
  /\ \E page \in PageKinds, tk \in TickerKinds :
       IF fetchResult = "page" /\ page = "full" /\ tk # "AttributeError"
       THEN /\ pc' = "built"
            /\ entryNo' = entryNo
            /\ started' = started
       ELSE /\ pc' = "idle"
            /\ entryNo' = entryNo - 1
            /\ started' = SubSeq(started, 1, entryNo - 1)
  /\ link' = "valid"
  /\ NewCall
  /\ UNCHANGED <<poolVars, harnessVars, tickerVars, feed, data, batchSize,
                 skipped, stored, rolledBack, connOpen>>

\* the rest of Entry.__init__: getArticle, getTicker and getHeadline on the
\* page makeRequest gave; any exception of the constructor, that of
\* makeRequest included, makes the loop `continue`.  The record of the call
\* is dropped here.
BuildEntry ==
  /\ pc = "fetched"
  /\ \E page \in PageKinds, tk \in TickerKinds :
       IF fetchResult = "page" /\ page = "full" /\ tk # "AttributeError"
       THEN pc' = "built" /\ skipped' = skipped
       ELSE pc' = "idle" /\ skipped' = skipped + 1
  /\ link' = "valid"
  /\ NewCall
  /\ UNCHANGED <<poolVars, harnessVars, tickerVars, feed, data, batchSize,
                 entryNo, started, stored, rolledBack, connOpen>>

\* one transaction for the whole batch: a failed insert rolls back the
\* records inserted before it
StoreEntryOneTransaction ==
  /\ pc = "built"
  /\ \E inserted \in BOOLEAN :
       IF inserted
       THEN stored' = stored + 1 /\ rolledBack' = rolledBack
       ELSE stored' = 0 /\ rolledBack' = rolledBack + stored + 1
  /\ pc' = "idle"
  /\ UNCHANGED <<poolVars, harnessVars, callVars, tickerVars, feed, data,
                 batchSize, entryNo, started, skipped, connOpen>>

\* cursor.execute(INSERT ...) and connection.commit(), or the rollback of
\* the except branch
StoreEntry ==
  /\ pc = "built"
  /\ \E inserted \in BOOLEAN :
       IF inserted
       THEN stored' = stored + 1 /\ rolledBack' = rolledBack
       ELSE stored' = stored /\ rolledBack' = rolledBack + 1
  /\ pc' = "idle"
  /\ UNCHANGED <<poolVars, harnessVars, callVars, tickerVars, feed, data,
                 batchSize, entryNo, started, skipped, connOpen>>

\* after the loop: cursor.close(), connection.close()
CloseConnection ==
  /\ pc = "idle"
  /\ entryNo = batchSize
  /\ pc' = "closed"
  /\ connOpen' = FALSE
  /\ UNCHANGED <<poolVars, harnessVars, callVars, tickerVars, feed, data,
                 batchSize, entryNo, started, skipped, stored, rolledBack>>

(* ------------------- getTicker on a family of texts -------------------- *)
Fill(n) == [i \in 1..n |-> "x"]

Nasdaq == 1    \* positions in exchanges
NYSE == 3
OTCQB == 6

SymAB == <<"A", "B">>
SymABCDE == <<"A", "B", "C", "D", "E">>
SymABCDEF == <<"A", "B", "C", "D", "E", "F">>
SymA1 == <<"A", "1">>
SymCD == <<"C", "D">>

\* "inside": lead, opener, gap, LABEL, sepPad, ": " or " ", sym, term, closer,
\*           tail                          e.g.  ...(Nasdaq: AB)...
\* "after":  lead, LABEL, " (ABCD:", sym, ")", tail
\*                                         e.g.  ...Nasdaq (ABCD:AB)...
\* tail: nothing, filler, or filler and a second group "(LABEL: CD)" and filler
Tails == {"none", "pad", "nasdaq", "nyse"}
InsideShapes ==
  [layout : {"inside"}, lead : {0, Pad}, opener : {"(", ")", "x"},
   gap : {0, BackWindow - 1, BackWindow}, label : {Nasdaq, NYSE, OTCQB},
   colon : BOOLEAN, sepPad : {0, ColonWindow - 1, ColonWindow},
   sym : {SymAB, SymABCDE, SymABCDEF, SymA1, <<>>},
   term : {<<>>, <<";">>, <<" ">>}, closer : {")", "("}, tail : Tails]
AfterShapes ==
  [layout : {"after"}, lead : {0, Pad}, opener : {"x"}, gap : {0},
   label : {Nasdaq, NYSE, OTCQB}, colon : {TRUE}, sepPad : {0},
   sym : {SymAB, SymABCDE, SymABCDEF, SymA1, <<>>},
   term : {<<>>}, closer : {")"}, tail : Tails]
NoShape == [layout |-> "none", lead |-> 0, opener |-> "x", gap |-> 0,
            label |-> Nasdaq, colon |-> FALSE, sepPad |-> 0, sym |-> <<>>,
            term |-> <<>>, closer |-> ")", tail |-> "none"]
Shapes == InsideShapes \cup AfterShapes

Group(label, sym) == <<"(">> \o exchanges[label] \o <<":", " ">> \o sym \o <<")">>

TailText(t) ==
  CASE t = "none" -> <<>>
    [] t = "pad" -> Fill(Pad)
    [] t = "nasdaq" -> Fill(Pad) \o Group(Nasdaq, SymCD) \o Fill(Pad)
    [] t = "nyse" -> Fill(Pad) \o Group(NYSE, SymCD) \o Fill(Pad)

Build(sh) ==
  IF sh.layout = "inside"
  THEN Fill(sh.lead) \o <<sh.opener>> \o Fill(sh.gap) \o exchanges[sh.label]
       \o Fill(sh.sepPad) \o (IF sh.colon THEN <<":", " ">> ELSE <<" ">>)
       \o sh.sym \o sh.term \o <<sh.closer>> \o TailText(sh.tail)
  ELSE Fill(sh.lead) \o exchanges[sh.label]
       \o <<" ", "(", "A", "B", "C", "D", ":">> \o sh.sym \o <<")">>
       \o TailText(sh.tail)

NoResult == [exc |-> "none", ticker |-> NoTicker, via |-> 0, swallowed |-> "none"]

InitTicker ==
  /\ shape = NoShape
  /\ article = <<>>
  /\ tpc = "done"
  /\ ticker = NoResult

\* self.ticker = self.getTicker()
GetTicker ==
  /\ tpc = "ready"
  /\ ticker' = getTicker(article)
  /\ tpc' = "done"
  /\ UNCHANGED <<shape, article, poolVars, harnessVars, fetchVars>>

Init == InitPool /\ NoHarness /\ InitFetch /\ InitTicker
Next == StartEntry \/ Attempt \/ Sleep \/ BuildEntry \/ StoreEntry
        \/ CloseConnection
Spec == Init /\ [][Next]_vars

\* where lambda_function can stand
Positions == {"idle", "request", "sleep", "fetched", "built", "closed"}

\* control leaves the place where it stands: every step of Next does that
Returns == pc # "closed" /\ pc' \in Positions \ {pc}

\* every call lambda_function makes returns (the GETs, the sleep, the
\* database calls), so control never stays for ever where it stands
SpecFair == Spec /\ WF_pc(Returns)

InitP == InitPool /\ InitHarness /\ NoFeed /\ InitTicker
NextP == ApiNext \/ ApiRefresh
SpecPool == InitP /\ [][NextP]_vars

InitT ==
  /\ proxyList = <<>>
  /\ currentProxy = None
  /\ NoHarness
  /\ NoFeed
  /\ \/ shape \in Shapes /\ article = Build(shape)
     \/ shape = NoShape /\ article = NonString
  /\ tpc = "ready"
  /\ ticker = NoResult
NextT == GetTicker
SpecTicker == InitT /\ [][NextT]_vars

(* ============================ properties ============================== *)
InCall == pc \in {"request", "sleep", "fetched"}

\* C1 (as claimed): an attempt that met a URL without a usable scheme ends the
\* call at once: InvalidArticleLink reaches the caller after exactly one
\* attempt, with no wait and no GET on the network.
C1_InvalidLinkIsTerminal ==
  (InCall /\ outcome \in {"MissingSchema", "InvalidSchema"}) =>
    /\ pc = "fetched"
    /\ lastError = "InvalidArticleLink"
    /\ fetchResult # "RetryError"
    /\ attempt = 1
    /\ waited = 0
    /\ gets = 0

\* C2: a call all of whose attempts ended in a transient failure goes on until
\* the 6th attempt and then fails with RetryError carrying that failure; the
\* attempt number never passes 6.
C2_SixTransientAttempts ==
  /\ attempt <= MaxAttempts
  /\ (InCall /\ attempt > 0 /\ transients = attempt) =>
       IF attempt < MaxAttempts
       THEN pc \in {"sleep", "request"} /\ fetchResult = "none"
       ELSE /\ pc = "fetched"
            /\ fetchResult = "RetryError"
            /\ lastError = "RequestException"
            /\ outcome = "Transient"

C2_Witness ==
  /\ pc = "fetched"
  /\ transients = MaxAttempts
  /\ attempt = MaxAttempts
  /\ fetchResult = "RetryError"
  /\ waited = (MaxAttempts - 1) * FixedDelay

\* C3 (as claimed): after an attempt that ended in a ProxyError with attempts
\* left, the call is still running: it waits and tries again.
C3_ProxyErrorIsRetried ==
  (InCall /\ outcome = "ProxyError" /\ attempt < MaxAttempts) =>
    pc \in {"sleep", "request"}

\* C4 (as claimed): a call that met nothing but ProxyErrors does not end
\* before the 4th of them, which makes the handler refresh the pool exactly
\* once and puts the counter back to 0.
C4_FourthProxyErrorRefreshes ==
  (pc = "fetched" /\ attempt > 0 /\ proxyFailures = attempt) =>
    /\ proxyFailures >= ProxyErrorLimit
    /\ handlerRefreshes = 1

\* the half of C4 the code keeps: below 4 ProxyErrors the handler refreshes
\* nothing
C4_NoRefreshBelowLimit ==
  (InCall /\ proxyFailures < ProxyErrorLimit) => handlerRefreshes = 0

\* C5 (as claimed): the call returns normally only with the page of a GET that
\* succeeded; every other call ends in an exception.
C5_ReturnsOnlyWithBody ==
  pc = "fetched" =>
    \/ fetchResult = "page" /\ outcome = "ok"
    \/ fetchResult = "RetryError"

\* C6 (as claimed): on a pool built with N >= 1 endpoints, without any
\* refreshProxies call, the first download made by getNextProxy is made by
\* call N+1, and it is the only one up to there.
C6_RefreshOnCallNPlusOne ==
  (explicitRefreshes = 0 /\ initLen >= 1) =>
    /\ firstImplicitAt # 0 => firstImplicitAt = initLen + 1
    /\ nextCalls >= initLen + 1 => firstImplicitAt = initLen + 1
    /\ nextCalls = initLen + 1 => implicitRefreshes = 1

\* C7 (as claimed): after a refreshProxies call that succeeded there is no
\* cursor and the list is the "yes" rows of the table just downloaded.
C7_RefreshResetsCursor ==
  (poolCall.op = "refreshProxies" /\ poolCall.exc = "none") =>
    /\ currentProxy = None
    /\ proxyList = HttpsOnly(source)

\* the half of C7 the code keeps: the list is replaced, nothing is merged
C7_RefreshReplacesList ==
  (poolCall.op = "refreshProxies" /\ poolCall.exc = "none") =>
    proxyList = HttpsOnly(source)

\* C8 (as claimed): after the download of the constructor, of refreshProxies
\* or of getNextProxy went through, the list is not empty.
C8_NonEmptyAfterRefresh ==
  (poolCall.op = "none" \/ (poolCall.refreshed /\ poolCall.exc = "none")) =>
    proxyList # <<>>

\* what the code does keep of C8: a download that finds no "yes" row succeeds
\* and leaves the list empty, and only getNextProxy fails on it (IndexError),
\* so a getNextProxy call that returns leaves a non-empty list holding the
\* endpoint it returned.
C8_EmptyListFailsNext ==
  /\ (poolCall.op = "getNextProxy" /\ poolCall.exc = "none") =>
       /\ proxyList # <<>>
       /\ poolCall.ret \in Range(proxyList)
       /\ poolCall.ret = currentProxy
  /\ (poolCall.op = "getNextProxy" /\ proxyList = <<>>) =>
       poolCall.exc = "IndexError"
  /\ (poolCall.op = "refreshProxies" /\ HttpsOnly(source) = <<>>
         /\ poolCall.exc = "none") => proxyList = <<>>

\* the empty list is met: a wrapping getNextProxy downloads a table without
\* a "yes" row and fails
C8_Witness ==
  /\ poolCall.op = "getNextProxy"
  /\ poolCall.refreshed
  /\ poolCall.exc = "IndexError"
  /\ proxyList = <<>>
  /\ initLen > 0

(* ------------------------------ getTicker ------------------------------ *)
\* the position in exchanges of the first label that occurs in the text, 0 if
\* none does
TopLabel(a) ==
  LET found == {k \in 1..Len(exchanges) : Find(a, exchanges[k]) # -1}
  IN  IF found = {} THEN 0 ELSE CHOOSE k \in found : \A j \in found : k <= j

NoOpenBefore(sh) == sh.opener # "(" \/ sh.gap >= BackWindow
\* ... and the backward scan leaves the text before it sees a bracket
BackRunsOff(sh) == sh.lead = 0 /\ sh.opener = "x" /\ sh.gap + 1 < BackWindow

WellFormed(sh) ==
  /\ sh.layout = "inside"
  /\ sh.opener = "("
  /\ sh.gap < BackWindow
  /\ sh.colon
  /\ sh.sepPad < ColonWindow
  /\ sh.closer = ")"
  /\ sh.sepPad + 2 + Len(sh.sym) + Len(sh.term) < FwdWindow
  /\ sh.label \in {Nasdaq, NYSE}
  /\ ~(sh.label = NYSE /\ sh.tail = "nasdaq")

C11_RaisesOnlyForNonString ==
  tpc = "done" =>
    /\ (ticker.exc # "none") <=> (article = NonString)
    /\ article = NonString => ticker.exc = "InvalidArticleText"

\* the half of C11 the code keeps: an article that is no str gives
\* InvalidArticleText, and a scan that runs off the text gives None
C11_NonStringRaises ==
  tpc = "done" =>
    /\ article = NonString => ticker.exc = "InvalidArticleText"
    /\ ticker.swallowed = "IndexError" =>
         (ticker.exc = "none" /\ ticker.ticker = NoTicker)

\* the label the result came from had both brackets confirmed
Confirmed(a, k) ==
  /\ k # 0
  /\ ScanBack(Partition(a, exchanges[k])[1], 1) = "open"
  /\ ScanFwd(Partition(a, exchanges[k])[3], 0) = "close"

\* ... and a ':' in the 30 characters after it
ColonFound(a, k) ==
  Confirmed(a, k) /\ ColonScan(Partition(a, exchanges[k])[3], 0) >= 0

NoColonInWindow(sh) ==
  /\ sh.layout = "inside"
  /\ sh.opener = "("
  /\ sh.gap < BackWindow
  /\ sh.closer = ")"
  /\ ~sh.colon \/ sh.sepPad >= ColonWindow
  /\ sh.sepPad + (IF sh.colon THEN 2 ELSE 1) + Len(sh.sym) + Len(sh.term)
       < FwdWindow

ClaimedSymbol(after) ==
  LET stripped == Strip(Partition(after, <<":">>)[3])
      five == SubSeq(stripped, 1, Min(Len(stripped), SymbolLen))
  IN  IF IsAlpha(Run(five)) THEN Run(five) ELSE NoTicker

\* C17 (as claimed): when the ':' was found, the result is the run at the
\* start of the 5 characters kept if that run is alphabetic, None otherwise,
\* and nothing is raised.
C17_RunFromStart ==
  (tpc = "done" /\ article # NonString /\ ColonFound(article, ticker.via)) =>
    /\ ticker.exc = "none"
    /\ ticker.ticker
         = ClaimedSymbol(Partition(article, exchanges[ticker.via])[3])

\* the half of C17 the code keeps: a ticker handed back is 1 to 5 letters
C17_TickerIsShortAlpha ==
  (tpc = "done" /\ ticker.ticker # NoTicker) =>
    (IsAlpha(ticker.ticker) /\ Len(ticker.ticker) <= SymbolLen)

(* ------------------------------- Proxies ------------------------------- *)
\* C15 (as claimed): on a pool built with N endpoints and no cursor, without
\* any refreshProxies call, the k-th getNextProxy call (1 <= k <= N) downloads
\* nothing, returns the k-th element of the list and leaves the cursor on it.
C15_KthCallGivesKthEndpoint ==
  (explicitRefreshes = 0 /\ nextCalls >= 1 /\ nextCalls <= initLen) =>
    /\ implicitRefreshes = 0
    /\ poolCall.exc = "none"
    /\ poolCall.ret = proxyList[nextCalls]
    /\ currentProxy = poolCall.ret

NoRepeat(list) ==
  \A i, j \in 1..Len(list) : list[i] = list[j] => i = j

\* the part of C15 the code keeps: the order is the list's order when no
\* endpoint occurs twice in the list
C15_InOrderWithoutRepeats ==
  (explicitRefreshes = 0 /\ implicitRefreshes = 0 /\ NoRepeat(proxyList)
     /\ nextCalls >= 1 /\ nextCalls <= initLen) =>
    /\ poolCall.exc = "none"
    /\ poolCall.ret = proxyList[nextCalls]
    /\ currentProxy = poolCall.ret

\* C18: a refreshProxies or getNextProxy call whose download fails with
\* RequestException (the proxy site is unreachable) ends in that exception
\* with proxyList and currentProxy as they were before the call.
C18_FailedRefreshChangesNothing ==
  [][poolCall'.exc = "RequestException" =>
       /\ proxyList' = proxyList
       /\ currentProxy' = currentProxy
       /\ poolCall'.refreshed
       /\ poolCall'.ret = None]_vars

C18_Witness ==
  /\ poolCall.op = "getNextProxy"
  /\ poolCall.exc = "RequestException"
  /\ Len(proxyList) = 2
  /\ currentProxy = proxyList[2]
  /\ nextCalls = 3

\* C19 (as claimed): a getNextProxy call made on a non-empty list, with the
\* proxy site answering, returns an element of the list the pool then holds.
C19_NextSucceedsOnNonEmptyList ==
  [][(nextCalls' = nextCalls + 1 /\ proxyList # <<>>
        /\ poolCall'.exc # "RequestException") =>
       /\ poolCall'.exc = "none"
       /\ poolCall'.ret \in Range(proxyList')]_vars

\* the stale cursor: a cursor that is not in the list after a refreshProxies
\* call makes the next getNextProxy call raise ValueError
C19_StaleCursor ==
  /\ poolCall.op = "getNextProxy"
  /\ poolCall.exc = "ValueError"
  /\ proxyList # <<>>
  /\ currentProxy \notin Range(proxyList)

(* --------------------------- lambda_function --------------------------- *)
\* the entries handled so far: left by `continue`, committed or rolled back
Handled == skipped + stored + rolledBack

\* C12: the loop starts the entries of the batch one after the other, from
\* the oldest of the (at most 10) newest entries of the feed to the newest;
\* an entry whose construction raised is counted as skipped, the loop stands
\* at its head again, and no entry is started a second time.
C12_SkipsOnlyTheFailedEntry ==
  /\ [](/\ entryNo <= batchSize
        /\ started = SubSeq(data, 1, entryNo)
        /\ \A i \in 1..Len(started) :
             started[i] = feed[Min(Len(feed), BatchCap) + 1 - i]
        /\ Handled = IF pc \in {"idle", "closed"} THEN entryNo ELSE entryNo - 1
        /\ pc = "closed" => started = data
        /\ \A n \in 0..MaxFeed :
             Batch(Numbered(n))
               = [i \in 1..Min(n, BatchCap) |-> Min(n, BatchCap) + 1 - i])
  /\ [][/\ entryNo' \in {entryNo, entryNo + 1}
        /\ skipped' \in {skipped, skipped + 1}
        /\ skipped' = skipped + 1 =>
             /\ pc = "fetched" /\ pc' = "idle"
             /\ entryNo' = entryNo /\ started' = started
             /\ stored' = stored /\ rolledBack' = rolledBack
             /\ connOpen']_vars

C12_Witness ==
  /\ pc = "request"
  /\ Len(feed) = 2
  /\ started = <<2, 1>>
  /\ skipped = 1
  /\ link = "valid"

\* C13: every entry that was built gets exactly one insert, which ends in a
\* commit or in a rollback; nothing is inserted for any other entry; a
\* rollback leaves the committed records as they were and the loop at its
\* head, where the next entry is started.
C13_OneTransactionPerRecord ==
  /\ [][/\ pc = "built" =>
             /\ stored' + rolledBack' = stored + rolledBack + 1
             /\ stored' \in {stored, stored + 1}
             /\ pc' = "idle"
             /\ skipped' = skipped /\ entryNo' = entryNo /\ started' = started
             /\ connOpen'
        /\ pc # "built" => (stored' = stored /\ rolledBack' = rolledBack)
        /\ rolledBack' # rolledBack =>
             (rolledBack' = rolledBack + 1 /\ stored' = stored)]_vars
  /\ [](pc = "closed" => Handled = batchSize)

C13_Witness ==
  /\ pc = "request"
  /\ entryNo = 2
  /\ stored = 0
  /\ rolledBack = 1

\* C14 (as claimed): in a call that has met no ProxyError, no attempt
\* downloads the proxy table.
C14_OnlyProxyFailuresRefresh ==
  [][(attempt' = attempt + 1 /\ proxyFailures' = 0) =>
       ~AtLast(proxyList, currentProxy)]_vars

\* C14 (amended): the handler of a transient failure calls no refreshProxies
\* and leaves list, cursor and proxyErrorCounter as getNextProxy left them in
\* that attempt; getNextProxy itself downloads the table whenever the cursor
\* stands on the last element, in calls that met only transient failures too.
C14_TransientLeavesPool ==
  /\ [][(attempt' = attempt + 1 /\ outcome' = "Transient") =>
          /\ handlerRefreshes' = handlerRefreshes
          /\ proxyErrorCounter' = proxyErrorCounter
          /\ IF AtLast(proxyList, currentProxy)
             THEN proxyList' # <<>> /\ currentProxy' = proxyList'[1]
             ELSE /\ proxyList' = proxyList
                  /\ currentProxy'
                       = getNextProxy(proxyList, currentProxy, TRUE, <<>>).cur
                  /\ currentProxy' \in Range(proxyList)]_vars
  /\ [](handlerRefreshes <= proxyFailures)

C14_Witness ==
  /\ pc = "sleep"
  /\ outcome = "Transient"
  /\ transients = 2
  /\ gets = 2
  /\ proxyList = <<1, 2>>
  /\ currentProxy = 2

\* C20: with every call returning, lambda_function ends: it starts at most 10
\* entries, makes at most 6 attempts in a makeRequest call, and stops with
\* every entry of the batch skipped or handed to the database and the
\* connection closed.
C20_BatchTerminates ==
  /\ [](/\ attempt <= MaxAttempts
        /\ entryNo <= BatchCap
        /\ Len(data) <= BatchCap
        /\ \A n \in 0..MaxFeed : Len(Batch(Numbered(n))) = Min(n, BatchCap))
  /\ <>[](/\ pc = "closed"
          /\ ~connOpen
          /\ entryNo = batchSize
          /\ Handled = batchSize)

C20_Witness ==
  /\ pc = "closed"
  /\ ~connOpen
  /\ batchSize = 2
  /\ skipped = 1
  /\ stored = 1

====
